---------------------------- MODULE Spec2Model ----------------------------
(***************************************************************************)
(* A model of the Langara Swing schedule exporter (content.js): the Banner *)
(* format decoders, the column resolver, the row parser, the session       *)
(* aggregator (scrapeCourseData), the calendar generator (createEvent,     *)
(* generateICS) and the export driver (generateAndDownload).               *)
(*                                                                         *)
(* Representation.  A JavaScript string is a TLA+ string; characters are   *)
(* the one-character substrings.  null is the record Null and a non-null   *)
(* result v is Some(v).  A table row is a record [th, td] holding the text *)
(* of its header cells and of its data cells, each in document order, as   *)
(* querySelectorAll('th') and querySelectorAll('td') return them.  Text    *)
(* produced with "\r\n" line ends is held as the sequence of its lines,    *)
(* each line standing for itself followed by CRLF.  A Date's time value is *)
(* counted in minutes since 1970-01-01T00:00Z (the code only builds time   *)
(* values whose seconds and milliseconds are zero).                        *)
(***************************************************************************)
EXTENDS Integers, Sequences, FiniteSets, TLC

(***************************************************************************)
(* JavaScript string primitives                                            *)
(***************************************************************************)
Char(s, i) == SubSeq(s, i, i)

Digits == "0123456789"

DigitChars == {"0", "1", "2", "3", "4", "5", "6", "7", "8", "9"}

\* toUpperCase of each lower-case letter
UpperOf ==
  [a |-> "A", b |-> "B", c |-> "C", d |-> "D", e |-> "E", f |-> "F", g |-> "G",
   h |-> "H", i |-> "I", j |-> "J", k |-> "K", l |-> "L", m |-> "M", n |-> "N",
   o |-> "O", p |-> "P", q |-> "Q", r |-> "R", s |-> "S", t |-> "T", u |-> "U",
   v |-> "V", w |-> "W", x |-> "X", y |-> "Y", z |-> "Z"]

UpperChars ==
  {"A", "B", "C", "D", "E", "F", "G", "H", "I", "J", "K", "L", "M",
   "N", "O", "P", "Q", "R", "S", "T", "U", "V", "W", "X", "Y", "Z"}

IsDigit(c) == c \in DigitChars
IsLetter(c) == c \in DOMAIN UpperOf \/ c \in UpperChars
DigitVal(c) == (CHOOSE i \in 1..Len(Digits) : Char(Digits, i) = c) - 1

AllDigits(s) == \A i \in 1..Len(s) : IsDigit(Char(s, i))
AllLetters(s) == \A i \in 1..Len(s) : IsLetter(Char(s, i))

\* String.prototype.toUpperCase on one character.
UpChar(c) == IF c \in DOMAIN UpperOf THEN UpperOf[c] ELSE c

\* The characters lo..hi of s in upper case.
RECURSIVE UpperRange(_, _, _)
UpperRange(s, lo, hi) ==
  IF lo > hi THEN ""
  ELSE IF lo = hi THEN UpChar(Char(s, lo))
  ELSE LET mid == (lo + hi) \div 2
       IN  UpperRange(s, lo, mid) \o UpperRange(s, mid + 1, hi)

\* String.prototype.toUpperCase
toUpperCase(s) == UpperRange(s, 1, Len(s))

IsSpace(c) == c \in {" ", "\t", "\n", "\r"}

\* The first position at or after i, and the last at or before i, that holds no
\* white space.
RECURSIVE FirstNonSpace(_, _)
FirstNonSpace(s, i) ==
  IF i <= Len(s) /\ IsSpace(Char(s, i)) THEN FirstNonSpace(s, i + 1) ELSE i

RECURSIVE LastNonSpace(_, _)
LastNonSpace(s, i) ==
  IF i >= 1 /\ IsSpace(Char(s, i)) THEN LastNonSpace(s, i - 1) ELSE i

\* String.prototype.trim
trim(s) ==
  IF s = "" THEN ""
  ELSE IF ~IsSpace(Char(s, 1)) /\ ~IsSpace(Char(s, Len(s))) THEN s
  ELSE SubSeq(s, FirstNonSpace(s, 1), LastNonSpace(s, Len(s)))

\* String.prototype.includes
includes(s, sub) ==
  \/ sub = ""
  \/ /\ Len(sub) <= Len(s)
     /\ \E i \in 1..(Len(s) - Len(sub) + 1) : SubSeq(s, i, i + Len(sub) - 1) = sub

\* Position of the first occurrence of the character c in s, 0 when absent.
IndexOfChar(s, c) ==
  LET at == {i \in 1..Len(s) : Char(s, i) = c}
  IN  IF at = {} THEN 0 ELSE CHOOSE i \in at : \A j \in at : i <= j

\* String.prototype.split with a one-character separator.
RECURSIVE split(_, _)
split(s, sep) ==
  LET i == IndexOfChar(s, sep)
  IN  IF i = 0 THEN <<s>>
      ELSE <<SubSeq(s, 1, i - 1)>> \o split(SubSeq(s, i + 1, Len(s)), sep)

\* String.prototype.padStart with a one-character filler.
RECURSIVE padStart(_, _, _)
padStart(s, n, c) == IF Len(s) >= n THEN s ELSE padStart(c \o s, n, c)

\* String.prototype.substring(from, to): both ends are clamped to 0..length and
\* the smaller one is the start.
substring(s, from, to) ==
  LET clamp(n) == IF n < 0 THEN 0 ELSE IF n > Len(s) THEN Len(s) ELSE n
      a == clamp(from)
      b == clamp(to)
  IN  IF a = b THEN ""
      ELSE IF a < b THEN SubSeq(s, a + 1, b)
      ELSE SubSeq(s, b + 1, a)

\* Array.prototype.join
RECURSIVE JoinRange(_, _, _, _)
JoinRange(seq, sep, lo, hi) ==
  IF lo > hi THEN ""
  ELSE IF lo = hi THEN seq[lo]
  ELSE LET mid == (lo + hi) \div 2
       IN  JoinRange(seq, sep, lo, mid) \o sep \o JoinRange(seq, sep, mid + 1, hi)

join(seq, sep) == JoinRange(seq, sep, 1, Len(seq))

\* String.prototype.replace(/c/g, rep) for a one-character pattern c.
RECURSIVE ReplaceRange(_, _, _, _, _)
ReplaceRange(s, c, rep, lo, hi) ==
  IF lo > hi THEN ""
  ELSE IF lo = hi THEN (IF Char(s, lo) = c THEN rep ELSE Char(s, lo))
  ELSE LET mid == (lo + hi) \div 2
       IN  ReplaceRange(s, c, rep, lo, mid) \o ReplaceRange(s, c, rep, mid + 1, hi)

replaceAll(s, c, rep) == ReplaceRange(s, c, rep, 1, Len(s))

\* parseInt(s, 10) on a string of decimal digits.
RECURSIVE parseInt(_)
parseInt(s) ==
  IF s = "" THEN 0
  ELSE 10 * parseInt(SubSeq(s, 1, Len(s) - 1)) + DigitVal(Char(s, Len(s)))

\* String(n) for a natural number n.
RECURSIVE numberToString(_)
numberToString(n) ==
  IF n < 10 THEN Char(Digits, n + 1)
  ELSE numberToString(n \div 10) \o Char(Digits, (n % 10) + 1)

(***************************************************************************)
(* null and non-null results                                               *)
(***************************************************************************)
Null == [isNull |-> TRUE]
Some(v) == [isNull |-> FALSE, val |-> v]

(***************************************************************************)
(* Format decoders                                                         *)
(***************************************************************************)
MONTH_MAP ==
  [JAN |-> "01", FEB |-> "02", MAR |-> "03", APR |-> "04",
   MAY |-> "05", JUN |-> "06", JUL |-> "07", AUG |-> "08",
   SEP |-> "09", OCT |-> "10", NOV |-> "11", DEC |-> "12"]

DAY_MAP ==
  [M |-> "MO", T |-> "TU", W |-> "WE", R |-> "TH", F |-> "FR", S |-> "SA", U |-> "SU"]

\* isNaN(new Date(`${year}-${month}-${day}`).getTime()) negated, for a month
\* taken from MONTH_MAP, as the browsers the extension is built for (Chrome and
\* Edge, README "Browser Compatibility") evaluate it: a date-only ISO string
\* yyyy-mm-dd is accepted when the day is 01..31, whatever the month's length,
\* and a day past the month's end rolls over into the next month.
JSDateIsValid(year, month, day) ==
  /\ Len(year) = 4 /\ AllDigits(year)
  /\ Len(day) = 2 /\ AllDigits(day)
  /\ parseInt(day) >= 1 /\ parseInt(day) <= 31

parseBannerDate(dateStr) ==
  IF dateStr = "" THEN Null
  ELSE
    LET trimmed == trim(dateStr)
        parts == split(trimmed, "-")
    IN  IF Len(parts) # 3 THEN Null
        ELSE
          LET day == padStart(parts[1], 2, "0")
              monthAbbr == toUpperCase(parts[2])
              year == parts[3]
          IN  IF monthAbbr \notin DOMAIN MONTH_MAP THEN Null
              ELSE
                LET month == MONTH_MAP[monthAbbr]
                IN  IF ~JSDateIsValid(year, month, day) THEN Null
                    ELSE Some(year \o month \o day)

\* formatTime that leaves the hours as they are.
formatTime_Unpadded(time) ==
  substring(time, 0, Len(time) - 2) \o ":" \o substring(time, Len(time) - 2, Len(time))

formatTime(time) ==
  LET padded == padStart(time, 4, "0")
      hours == substring(padded, 0, Len(padded) - 2)
      minutes == substring(padded, Len(padded) - 2, Len(padded))
  IN  padStart(hours, 2, "0") \o ":" \o minutes

parseBannerTime(timeStr) ==
  IF timeStr = "" THEN Null
  ELSE
    LET trimmed == trim(timeStr)
        parts == split(trimmed, "-")
    IN  IF Len(parts) # 2 THEN Null
        ELSE
          LET startRaw == trim(parts[1])
              endRaw == trim(parts[2])
          IN  Some([start |-> formatTime(startRaw), end |-> formatTime(endRaw)])

positions == <<"M", "T", "W", "R", "F", "S", "U">>

DayIsSet(trimmed, i) == includes(trimmed, positions[i])

RECURSIVE parseBannerDaysFrom(_, _)
parseBannerDaysFrom(trimmed, i) ==
  IF i > Len(positions) THEN <<>>
  ELSE (IF DayIsSet(trimmed, i) THEN <<DAY_MAP[positions[i]]>> ELSE <<>>)
         \o parseBannerDaysFrom(trimmed, i + 1)

parseBannerDays(daysStr) ==
  IF daysStr = "" THEN <<>>
  ELSE parseBannerDaysFrom(toUpperCase(trim(daysStr)), 1)

(***************************************************************************)
(* ECMAScript Date (time values in minutes since the epoch)                *)
(***************************************************************************)
MinutesPerDay == 24 * 60

IsLeapYear(y) == (y % 4 = 0 /\ y % 100 # 0) \/ y % 400 = 0

\* ECMA-262 DayFromYear
DayFromYear(y) ==
  365 * (y - 1970) + ((y - 1969) \div 4) - ((y - 1901) \div 100) + ((y - 1601) \div 400)

DaysInMonth(y, m) ==
  IF m = 2 THEN (IF IsLeapYear(y) THEN 29 ELSE 28)
  ELSE IF m \in {4, 6, 9, 11} THEN 30 ELSE 31

RECURSIVE DaysBeforeMonth(_, _)
DaysBeforeMonth(y, m) ==
  IF m = 1 THEN 0 ELSE DaysBeforeMonth(y, m - 1) + DaysInMonth(y, m - 1)

\* ECMA-262 MakeDay(year, month, date) for month in 0..11 and date >= 1.
MakeDay(year, month, date) == DayFromYear(year) + DaysBeforeMonth(year, month + 1) + date - 1

\* Date.UTC(year, month, day, hour, minute, 0): a year of 0..99 means 1900 + year.
DateUTC(year, month, day, hour, minute) ==
  LET yr == IF year >= 0 /\ year <= 99 THEN 1900 + year ELSE year
  IN  MakeDay(yr, month, day) * MinutesPerDay + hour * 60 + minute

Day(tv) == tv \div MinutesPerDay
MinutesInDay(tv) == tv % MinutesPerDay

\* ECMA-262 YearFromTime: the year whose days include the time value's day.
getUTCFullYear(tv) ==
  LET d == Day(tv)
      a == 1970 + (d \div 366)
      b == 1970 + (d \div 365)
  IN  CHOOSE y \in ((IF a < b THEN a ELSE b) - 1)..((IF a < b THEN b ELSE a) + 1) :
        DayFromYear(y) <= d /\ d < DayFromYear(y + 1)

\* 0-based month, as Date.prototype.getUTCMonth returns it.
getUTCMonth(tv) ==
  LET y == getUTCFullYear(tv)
      dayInYear == Day(tv) - DayFromYear(y)
  IN  (CHOOSE m \in 1..12 :
         DaysBeforeMonth(y, m) <= dayInYear
         /\ dayInYear < DaysBeforeMonth(y, m) + DaysInMonth(y, m)) - 1

getUTCDate(tv) ==
  LET y == getUTCFullYear(tv)
  IN  Day(tv) - DayFromYear(y) - DaysBeforeMonth(y, getUTCMonth(tv) + 1) + 1

getUTCHours(tv) == MinutesInDay(tv) \div 60
getUTCMinutes(tv) == MinutesInDay(tv) % 60

\* Date.prototype.setUTCHours(hour): MakeDate(Day(t), MakeTime(hour, min, sec, ms)).
setUTCHours(tv, hour) == Day(tv) * MinutesPerDay + hour * 60 + getUTCMinutes(tv)

(***************************************************************************)
(* Calendar generator                                                      *)
(***************************************************************************)
formatICSDateTime(dateStr, timeStr) ==
  IF dateStr = "" \/ timeStr = "" THEN ""
  ELSE
    LET parts == split(timeStr, ":")
        hours == parts[1]
        minutes == parts[2]
    IN  dateStr \o "T" \o padStart(hours, 2, "0") \o padStart(minutes, 2, "0") \o "00"

\* The offset added to a local time to reach UTC, in hours.
UTCOffsetHours == 8

formatICSDateTimeUTC(dateStr, timeStr) ==
  IF dateStr = "" \/ timeStr = "" THEN ""
  ELSE
    LET parts == split(timeStr, ":")
        hour == parseInt(parts[1])
        minute == parseInt(parts[2])
        year == parseInt(substring(dateStr, 0, 4))
        month == parseInt(substring(dateStr, 4, 6)) - 1
        day == parseInt(substring(dateStr, 6, 8))
        pstDate0 == DateUTC(year, month, day, hour, minute)
        pstDate == setUTCHours(pstDate0, getUTCHours(pstDate0) + UTCOffsetHours)
        utcYear == getUTCFullYear(pstDate)
        utcMonth == padStart(numberToString(getUTCMonth(pstDate) + 1), 2, "0")
        utcDay == padStart(numberToString(getUTCDate(pstDate)), 2, "0")
        utcHours == padStart(numberToString(getUTCHours(pstDate)), 2, "0")
        utcMinutes == padStart(numberToString(getUTCMinutes(pstDate)), 2, "0")
    IN  numberToString(utcYear) \o utcMonth \o utcDay \o "T" \o utcHours \o utcMinutes \o "00Z"

\* The replacements with the backslash's last.
EscapeOrder_BackslashLast == <<";", ",", "\n", "\\">>

\* The four replacements in the order the code applies them.
EscapeOrder == <<"\\", ";", ",", "\n">>

EscapeReplacement(c) == IF c = "\n" THEN "\\n" ELSE "\\" \o c

RECURSIVE EscapePasses(_, _)
EscapePasses(text, order) ==
  IF order = <<>> THEN text
  ELSE EscapePasses(replaceAll(text, Head(order), EscapeReplacement(Head(order))), Tail(order))

escapeICSText(text) == IF text = "" THEN "" ELSE EscapePasses(text, EscapeOrder)

\* String.prototype.replace(pattern, replacement) for a string pattern: the
\* first occurrence only.
replaceFirst(s, pattern, replacement) ==
  IF ~includes(s, pattern) THEN s
  ELSE
    LET i == CHOOSE k \in 1..(Len(s) - Len(pattern) + 1) :
               /\ SubSeq(s, k, k + Len(pattern) - 1) = pattern
               /\ \A j \in 1..(k - 1) : SubSeq(s, j, j + Len(pattern) - 1) # pattern
    IN  SubSeq(s, 1, i - 1) \o replacement \o SubSeq(s, i + Len(pattern), Len(s))

\* replaceFirst on a text held as its lines, for a pattern without a line end.
RECURSIVE replaceFirstInLines(_, _, _)
replaceFirstInLines(lines, pattern, replacement) ==
  IF lines = <<>> THEN <<>>
  ELSE IF includes(Head(lines), pattern)
       THEN <<replaceFirst(Head(lines), pattern, replacement)>> \o Tail(lines)
       ELSE <<Head(lines)>> \o replaceFirstInLines(Tail(lines), pattern, replacement)

EventCourseCode(subject, course, section, title) ==
  IF subject # "" /\ course # ""
  THEN trim(subject \o " " \o course) \o (IF section # "" THEN " " \o section ELSE "")
  ELSE IF subject # ""
  THEN subject \o (IF section # "" THEN " " \o section ELSE "")
  ELSE IF course # ""
  THEN course \o (IF section # "" THEN " " \o section ELSE "")
  ELSE IF title # "" THEN title ELSE "Course"

\* IsExam comparing with the word as the page writes it.
IsExam_AsWritten(type) == type = "Exam"

IsExam(type) == type = "EXAM"

HasRecurrence(icsDays, endDate) == Len(icsDays) > 0 /\ ~endDate.isNull

\* ExamEndsOnEndDate without the comparison of the two dates' being different.
ExamEndsOnEndDate_Never(startDate, endDate) == FALSE

ExamEndsOnEndDate(startDate, endDate) == ~endDate.isNull /\ endDate.val # startDate.val

\* createEvent: the VEVENT block as its lines; <<>> stands for the empty string.
createEvent(courseData) ==
  LET startDate == parseBannerDate(courseData.start)
      endDate == parseBannerDate(courseData.end)
      timeData == parseBannerTime(courseData.time)
  IN  IF startDate.isNull \/ timeData.isNull THEN <<>>
      ELSE
        LET courseCode == EventCourseCode(courseData.subject, courseData.course,
                                          courseData.section, courseData.title)
            summary == IF IsExam(courseData.type)
                       THEN "FINAL EXAM - " \o courseCode
                       ELSE courseCode \o " " \o courseData.type
            description == IF courseData.title # "" THEN courseData.title ELSE courseCode
            location == IF courseData.room # ""
                        THEN "Langara College, Room " \o courseData.room
                        ELSE "Langara College"
            dtStart == formatICSDateTime(startDate.val, timeData.val.start)
            dtEnd == formatICSDateTime(startDate.val, timeData.val.end)
            icsEvent0 == <<"BEGIN:VEVENT",
                           "DTSTART;TZID=America/Los_Angeles:" \o dtStart,
                           "DTEND;TZID=America/Los_Angeles:" \o dtEnd>>
            icsEvent1 ==
              IF ~IsExam(courseData.type)
              THEN LET icsDays == parseBannerDays(courseData.days)
                   IN  IF HasRecurrence(icsDays, endDate)
                       THEN LET untilDate == formatICSDateTimeUTC(endDate.val, "23:59")
                            IN  Append(icsEvent0, "RRULE:FREQ=WEEKLY;BYDAY="
                                         \o join(icsDays, ",") \o ";UNTIL=" \o untilDate)
                       ELSE icsEvent0
              ELSE IF ExamEndsOnEndDate(startDate, endDate)
                   THEN LET examEnd == formatICSDateTime(endDate.val, timeData.val.end)
                        IN  replaceFirstInLines(icsEvent0,
                              "DTEND;TZID=America/Los_Angeles:" \o dtEnd,
                              "DTEND;TZID=America/Los_Angeles:" \o examEnd)
                   ELSE icsEvent0
        IN  icsEvent1 \o <<"SUMMARY:" \o escapeICSText(summary),
                           "DESCRIPTION:" \o escapeICSText(description),
                           "LOCATION:" \o escapeICSText(location),
                           "END:VEVENT">>

\* The five lines generateICS writes before the events, and the closing line.
ICSHeader ==
  <<"BEGIN:VCALENDAR", "VERSION:2.0", "PRODID:-//Langara Swing Schedule Exporter//EN",
    "CALSCALE:GREGORIAN", "X-WR-TIMEZONE:America/Los_Angeles">>

ICSFooter == "END:VCALENDAR"

(***************************************************************************)
(* Content patterns of the row parser                                      *)
(***************************************************************************)
\* /^\d{1,2}-[A-Z]{3}-\d{4}$/i
IsDatePattern(text) ==
  \E d \in {1, 2} :
    /\ Len(text) = d + 9
    /\ AllDigits(SubSeq(text, 1, d))
    /\ Char(text, d + 1) = "-"
    /\ AllLetters(SubSeq(text, d + 2, d + 4))
    /\ Char(text, d + 5) = "-"
    /\ AllDigits(SubSeq(text, d + 6, d + 9))

\* /^\d{3,4}-\d{3,4}$/
IsTimePattern(text) ==
  \E a \in {3, 4}, b \in {3, 4} :
    /\ Len(text) = a + 1 + b
    /\ AllDigits(SubSeq(text, 1, a))
    /\ Char(text, a + 1) = "-"
    /\ AllDigits(SubSeq(text, a + 2, a + 1 + b))

DaysAlphabet == "-MTWRFSUmtwfrsu"

\* /^[-MTWRFSUmtwfrsu]{7}$/
IsDaysPattern(text) ==
  /\ Len(text) = 7
  /\ \A i \in 1..Len(text) : includes(DaysAlphabet, Char(text, i))

IsTypeWord(text) == toUpperCase(text) \in {"LECTURE", "LAB", "EXAM"}

(***************************************************************************)
(* Column resolver                                                         *)
(***************************************************************************)
MinOf(S) == CHOOSE x \in S : \A y \in S : x <= y

\* The 1-based positions of the header cells of a row whose text contains the name.
MatchingHeaders(row, headerTextUpper) ==
  {i \in 1..Len(row.th) : includes(toUpperCase(trim(row.th[i])), headerTextUpper)}

\* getColumnIndex that looks at the first header row only.
getColumnIndex_FirstRowOnly(rows, headerText) ==
  LET withTh == {r \in 1..Len(rows) : Len(rows[r].th) > 0}
      inFirst == IF withTh = {} THEN {}
                 ELSE MatchingHeaders(rows[MinOf(withTh)], toUpperCase(headerText))
  IN  IF inFirst # {} THEN MinOf(inFirst) - 1 ELSE -1

\* getColumnIndex: a 0-based index, or -1.
getColumnIndex(rows, headerText) ==
  LET headerTextUpper == toUpperCase(headerText)
      withTh == {r \in 1..Len(rows) : Len(rows[r].th) > 0}
      firstHeaderRow == IF withTh = {} THEN 0 ELSE MinOf(withTh)
      noTh == {r \in 1..Len(rows) : Len(rows[r].th) = 0}
      stop == IF noTh = {} THEN Len(rows) + 1 ELSE MinOf(noTh)
      inFirst == IF firstHeaderRow = 0 THEN {}
                 ELSE MatchingHeaders(rows[firstHeaderRow], headerTextUpper)
      hits == {r \in 1..(stop - 1) : MatchingHeaders(rows[r], headerTextUpper) # {}}
  IN  IF inFirst # {} THEN MinOf(inFirst) - 1
      ELSE IF hits # {}
      THEN MinOf(MatchingHeaders(rows[MinOf(hits)], headerTextUpper)) - 1
      ELSE -1

(***************************************************************************)
(* Row parser                                                              *)
(***************************************************************************)
\* cells[idx].textContent.trim() for a 0-based idx.
CellText(cells, idx) == trim(cells[idx + 1])

getCellText(cells, idx, fallbackIdx) ==
  IF idx >= 0 /\ idx < Len(cells) THEN CellText(cells, idx)
  ELSE IF fallbackIdx >= 0 /\ fallbackIdx < Len(cells) THEN CellText(cells, fallbackIdx)
  ELSE ""

\* The 0-based index of the leftmost cell matching each pattern, -1 when none.
TypeCell(cells) ==
  LET S == {i \in 0..(Len(cells) - 1) : IsTypeWord(CellText(cells, i))}
  IN  IF S = {} THEN -1 ELSE MinOf(S)

DateCell(cells) ==
  LET S == {i \in 0..(Len(cells) - 1) : IsDatePattern(CellText(cells, i))}
  IN  IF S = {} THEN -1 ELSE MinOf(S)

TimeCell(cells) ==
  LET S == {i \in 0..(Len(cells) - 1) : IsTimePattern(CellText(cells, i))}
  IN  IF S = {} THEN -1 ELSE MinOf(S)

DaysCell(cells) ==
  LET S == {i \in 0..(Len(cells) - 1) : IsDaysPattern(CellText(cells, i))}
  IN  IF S = {} THEN -1 ELSE MinOf(S)

RowType(cells, rows) ==
  LET c == TypeCell(cells)
  IN  IF c >= 0 THEN CellText(cells, c)
      ELSE getCellText(cells, getColumnIndex(rows, "Type"), 9)

RowStart(cells, rows) ==
  LET c == DateCell(cells)
  IN  IF c >= 0 THEN CellText(cells, c)
      ELSE getCellText(cells, getColumnIndex(rows, "Start"), 7)

\* RowEnd that reads the End column whether or not the start date was found by
\* its pattern.
RowEnd_ByColumn(cells, rows) == getCellText(cells, getColumnIndex(rows, "End"), 8)

RowEnd(cells, rows) ==
  LET c == DateCell(cells)
  IN  IF c >= 0
      THEN (IF c + 1 < Len(cells) /\ IsDatePattern(CellText(cells, c + 1))
            THEN CellText(cells, c + 1)
            ELSE "")
      ELSE getCellText(cells, getColumnIndex(rows, "End"), 8)

RowTime(cells, rows) ==
  LET c == TimeCell(cells)
  IN  IF c >= 0 THEN CellText(cells, c)
      ELSE getCellText(cells, getColumnIndex(rows, "Time"), 11)

RowDays(cells, rows) ==
  LET c == DaysCell(cells)
  IN  IF c >= 0 THEN CellText(cells, c)
      ELSE getCellText(cells, getColumnIndex(rows, "Days"), 10)

RowSubj(cells, rows) == getCellText(cells, getColumnIndex(rows, "Subj"), 1)
RowCrse(cells, rows) == getCellText(cells, getColumnIndex(rows, "Crse"), 2)
RowSec(cells, rows) == getCellText(cells, getColumnIndex(rows, "Sec"), 3)
RowTitle(cells, rows) == getCellText(cells, getColumnIndex(rows, "Title"), 6)
RowRoom(cells, rows) == getCellText(cells, getColumnIndex(rows, "Room"), 12)

\* a || b on strings
OrElse(a, b) == IF a # "" THEN a ELSE b

\* The least number of data cells parseTableRow accepts.
MinCells == 3

TooFewCells(cells) == Len(cells) < MinCells

\* MissingRequired without the date-or-time check.
MissingRequired_TypeOnly(type, start, time) == type = ""

\* The required-field checks of parseTableRow.
MissingRequired(type, start, time) == type = "" \/ (start = "" /\ time = "")

FinalIdentity(own, carried) == OrElse(own, carried)

parseTableRow(row, rows, currentCourseInfo) ==
  LET cells == row.td
  IN  IF TooFewCells(cells) THEN Null
      ELSE
        LET type == RowType(cells, rows)
            start == RowStart(cells, rows)
            end == RowEnd(cells, rows)
            time == RowTime(cells, rows)
            days == RowDays(cells, rows)
            finalSubj == FinalIdentity(RowSubj(cells, rows), currentCourseInfo.subject)
            finalCrse == FinalIdentity(RowCrse(cells, rows), currentCourseInfo.course)
            finalSec == FinalIdentity(RowSec(cells, rows), currentCourseInfo.section)
            finalTitle == FinalIdentity(RowTitle(cells, rows), currentCourseInfo.title)
        IN  IF MissingRequired(type, start, time) THEN Null
            ELSE
              LET normalizedType == trim(toUpperCase(type))
                  courseIdentifier ==
                    IF finalSubj # "" /\ finalCrse # "" THEN trim(finalSubj \o " " \o finalCrse)
                    ELSE IF finalSubj # "" THEN finalSubj ELSE "Course"
                  sectionPart == IF finalSec # "" THEN " " \o finalSec ELSE ""
                  courseCode == trim(courseIdentifier \o sectionPart)
              IN  Some([subject |-> finalSubj,
                        course |-> finalCrse,
                        section |-> finalSec,
                        title |-> OrElse(finalTitle, courseCode),
                        type |-> normalizedType,
                        days |-> days,
                        time |-> time,
                        start |-> start,
                        end |-> end,
                        room |-> RowRoom(cells, rows)])

(***************************************************************************)
(* Table locator.  The document is the sequence of the body's child        *)
(* elements, each [tag, class, summary, text, rows]; rows is empty unless  *)
(* the element is a table.  The result is the element's position, 0 for    *)
(* null.                                                                   *)
(***************************************************************************)
RECURSIVE RowsHeaders(_)
RowsHeaders(rows) ==
  IF rows = <<>> THEN <<>>
  ELSE [i \in 1..Len(Head(rows).th) |-> trim(Head(rows).th[i])] \o RowsHeaders(Tail(rows))

\* Array.from(table.querySelectorAll('th')).map(th => th.textContent.trim())
TableHeaders(el) == RowsHeaders(el.rows)

IsTable(el) == el.tag = "TABLE"

HasTypeHeader(el) ==
  LET headers == TableHeaders(el)
  IN  Len(headers) > 0 /\ \E i \in 1..Len(headers) : includes(toUpperCase(headers[i]), "TYPE")

NamesRegisteredCourses(text) ==
  includes(toUpperCase(text), "REGISTERED") /\ includes(toUpperCase(text), "COURSE")

\* 'h2, h3, h4, .pageheader, .header' for an element of the body.
IsHeadingElement(el) == el.tag \in {"H2", "H3", "H4"} \/ el.class \in {"pageheader", "header"}

RECURSIVE RowsText(_)
RowsText(rows) ==
  IF rows = <<>> THEN ""
  ELSE join(Head(rows).th, "") \o join(Head(rows).td, "") \o RowsText(Tail(rows))

TextContent(el) == IF IsTable(el) THEN RowsText(el.rows) ELSE el.text

\* Some th or td of the table names the registered courses.
HasRegisteredCell(el) ==
  \E r \in 1..Len(el.rows) :
    \/ \E i \in 1..Len(el.rows[r].th) : NamesRegisteredCourses(el.rows[r].th[i])
    \/ \E i \in 1..Len(el.rows[r].td) : NamesRegisteredCourses(el.rows[r].td[i])

\* The bounds of the two searches around a header.
SiblingDepth == 10
AncestorDepth == 5

\* The first table with a TYPE header among the next SiblingDepth siblings.
SiblingSearch(doc, p) ==
  LET S == {q \in (p + 1)..Len(doc) :
              q <= p + SiblingDepth /\ IsTable(doc[q]) /\ HasTypeHeader(doc[q])}
  IN  IF S = {} THEN 0 ELSE MinOf(S)

\* parent.querySelector('table') for the ancestors of an element at the given
\* depth below the body: the body's first table, when the body is reached
\* within AncestorDepth steps and that table has a TYPE header.
AncestorSearch(doc, depthOfBody) ==
  LET T == {q \in 1..Len(doc) : IsTable(doc[q])}
  IN  IF depthOfBody < AncestorDepth /\ T # {} /\ HasTypeHeader(doc[MinOf(T)])
      THEN MinOf(T) ELSE 0

\* What the first strategy finds from the headers at or inside element p.
HeaderSearch(doc, p) ==
  LET el == doc[p]
      own == IF IsHeadingElement(el) /\ NamesRegisteredCourses(TextContent(el))
             THEN (IF SiblingSearch(doc, p) # 0 THEN SiblingSearch(doc, p)
                   ELSE AncestorSearch(doc, 0))
             ELSE 0
      \* a cell's ancestors are tr, tbody, table, body
      inner == IF IsTable(el) /\ HasRegisteredCell(el) THEN AncestorSearch(doc, 3) ELSE 0
  IN  IF own # 0 THEN own ELSE inner

RegisteredCoursesStrategy(doc) ==
  LET S == {p \in 1..Len(doc) : HeaderSearch(doc, p) # 0}
  IN  IF S = {} THEN 0 ELSE HeaderSearch(doc, MinOf(S))

selectors ==
  <<[tableOnly |-> FALSE, class |-> "datadisplaytable", summary |-> ""],
    [tableOnly |-> TRUE, class |-> "datadisplaytable", summary |-> ""],
    [tableOnly |-> TRUE, class |-> "", summary |-> "course"],
    [tableOnly |-> TRUE, class |-> "", summary |-> "schedule"],
    [tableOnly |-> TRUE, class |-> "", summary |-> "Registered"]>>

SelectorMatches(sel, el) ==
  /\ sel.tableOnly => IsTable(el)
  /\ sel.class # "" => el.class = sel.class
  /\ sel.summary # "" => includes(el.summary, sel.summary)

HasKeyColumns(el) ==
  LET headers == TableHeaders(el)
  IN  /\ Len(headers) > 0
      /\ \E i \in 1..Len(headers) :
           LET h == toUpperCase(headers[i])
           IN  \/ includes(h, "TYPE")
               \/ includes(h, "START")
               \/ includes(h, "DAYS")
               \/ (includes(h, "SUBJ") /\ includes(h, "CRSE"))

RECURSIVE SelectorStrategyFrom(_, _)
SelectorStrategyFrom(doc, k) ==
  IF k > Len(selectors) THEN 0
  ELSE LET S == {p \in 1..Len(doc) : SelectorMatches(selectors[k], doc[p]) /\ HasKeyColumns(doc[p])}
       IN  IF S # {} THEN MinOf(S) ELSE SelectorStrategyFrom(doc, k + 1)

SelectorStrategy(doc) == SelectorStrategyFrom(doc, 1)

\* The fallback looks only at tables with more than this many rows.
FallbackRows == 3

FallbackStrategy(doc) ==
  LET S == {p \in 1..Len(doc) :
              /\ IsTable(doc[p])
              /\ Len(doc[p].rows) > FallbackRows
              /\ LET headerText == toUpperCase(join(TableHeaders(doc[p]), " "))
                 IN  includes(headerText, "TYPE")
                     /\ (includes(headerText, "START") \/ includes(headerText, "DAYS"))}
  IN  IF S = {} THEN 0 ELSE MinOf(S)

\* findDataTable with the fallback before the selectors.
findDataTable_FallbackSecond(doc) ==
  IF RegisteredCoursesStrategy(doc) # 0 THEN RegisteredCoursesStrategy(doc)
  ELSE IF FallbackStrategy(doc) # 0 THEN FallbackStrategy(doc)
  ELSE SelectorStrategy(doc)

findDataTable(doc) ==
  IF RegisteredCoursesStrategy(doc) # 0 THEN RegisteredCoursesStrategy(doc)
  ELSE IF SelectorStrategy(doc) # 0 THEN SelectorStrategy(doc)
  ELSE FallbackStrategy(doc)

(***************************************************************************)
(* Session aggregator: the pieces of scrapeCourseData's row loop           *)
(***************************************************************************)
\* Leading rows that hold a header cell.
\* HeaderRowCount that counts every row with a header cell, leading or not.
HeaderRowCount_AnyRow(rows) == Cardinality({r \in 1..Len(rows) : Len(rows[r].th) > 0})

HeaderRowCount(rows) ==
  LET noTh == {r \in 1..Len(rows) : Len(rows[r].th) = 0}
  IN  IF noTh = {} THEN Len(rows) ELSE MinOf(noTh) - 1

\* Rows with fewer data cells than this are skipped by the row loop.
SkipBelow == 3

\* IsSpacerRow with the bound off by one: a row of two cells is not skipped.
IsSpacerRow_UnderTwo(cells) == Len(cells) < SkipBelow - 1

IsSpacerRow(cells) == Len(cells) < SkipBelow

EmptyCourseInfo == [subject |-> "", course |-> "", section |-> "", title |-> ""]

\* subjText, crseText, secText and titleText of the row loop.
LoopCellText(cells, idx) == IF Len(cells) > idx THEN CellText(cells, idx) ELSE ""

RowCourseInfo(cells) ==
  [subject |-> LoopCellText(cells, 1),
   course |-> LoopCellText(cells, 2),
   section |-> LoopCellText(cells, 3),
   title |-> LoopCellText(cells, 6)]

SuppliesIdentity(cells) == LoopCellText(cells, 1) # "" /\ LoopCellText(cells, 2) # ""

\* InfoForRow that never takes the row's own cells.
InfoForRow_Stale(cells, info) == info

\* currentCourseInfo as handed to parseTableRow.
InfoForRow(cells, info) == IF SuppliesIdentity(cells) THEN RowCourseInfo(cells) ELSE info

\* currentCourseInfo after a record was pushed.
InfoAfterRecord(courseData, info) ==
  IF courseData.subject # "" /\ courseData.course # ""
  THEN [subject |-> courseData.subject,
        course |-> courseData.course,
        section |-> courseData.section,
        title |-> courseData.title]
  ELSE info

\* NoCourses that never reports an empty list.
NoCourses_Never(list) == FALSE

NoCourses(list) == Len(list) = 0

(***************************************************************************)
(* The pages explored                                                      *)
(***************************************************************************)
\* The longest table body (rows after the header rows) explored.
MaxRows == 2

DataRow(crn, subj, crse, sec, title, start, end, type, days, time, room) ==
  [th |-> <<>>,
   td |-> <<crn, subj, crse, sec, "", "", title, start, end, type, days, time, room, "">>]

RowPool ==
  << \* a course's first row
     DataRow("10123", "CPSC", "1150", "001", "Program Design",
             "06-MAY-2024", "09-AUG-2024", "Lecture", "-T-R---", "1230-1420", "A275"),
     \* a continuation row with no cell of its own identity
     DataRow("", "", "", "", "",
             " 6-may-2024", "09-AUG-2024", " Lab ", "M---F--", "830-1025", "B019"),
     \* a continuation row with a section and a title of its own, and no end date
     DataRow("", "", "", "W01", "Lab; B, C",
             "06-MAY-2024", "", "LAB", "M-W----", "1430-1620", ""),
     \* an exam over two days, with a days mask
     DataRow("", "", "", "", "",
             "12-AUG-2024", "13-AUG-2024", "Exam", "--W----", "900-1200", "Gym"),
     \* a spacer row of two cells
     [th |-> <<>>, td |-> <<"", " ">>],
     \* a course's first row with no date and no time
     DataRow("20001", "MATH", "1171", "002", "", "", "", "Lecture", "", "", ""),
     \* a lecture whose days mask is all placeholders
     DataRow("", "", "", "", "",
             "06-MAY-2024", "09-AUG-2024", "Lecture", "-------", "1230-1420", "A275"),
     \* a lecture whose time is not a time range
     DataRow("", "", "", "", "Seminar",
             "06-MAY-2024", "31-XXX-2024", "Lecture", "-T-----", "TBA", ""),
     \* a row with dates and a time and no type
     DataRow("", "BIOL", "", "", "",
             "06-MAY-2024", "09-AUG-2024", "", "-T-R---", "1230-1420", ""),
     \* a header row repeated inside the body
     [th |-> <<"Start", "End", "Type">>, td |-> <<>>] >>

HeaderLayouts ==
  << \* Banner's two header rows
     << [th |-> <<"CRN", "Subj", "Crse", "Sec", "Status", "Cred", "Title", "">>, td |-> <<>>],
        [th |-> <<"", "", "", "", "", "", "", "Start", "End", "Type", "Days", "Time",
                  "Room", "Instructor">>, td |-> <<>>] >>,
     \* one header row that starts at the subject
     << [th |-> <<"Subj", "Crse", "Sec", "Title", "Start", "End", "Type", "Days", "Time",
                  "Room">>, td |-> <<>>] >>,
     \* no header cells at all
     << >> >>

Element(tag, class, text, rows) ==
  [tag |-> tag, class |-> class, summary |-> "", text |-> text, rows |-> rows]

\* The layouts explored, each with the header rows (by position in
\* HeaderLayouts) its table gets.
PageKinds ==
  {<<"heading", 1>>, <<"styled", 2>>, <<"plain", 1>>, <<"styled", 3>>, <<"empty", 3>>}

Page(layout, rows) ==
  CASE layout = "heading" ->
         <<Element("H2", "", "Registered Courses", <<>>),
           Element("TABLE", "datadisplaytable", "", rows)>>
    [] layout = "styled" -> <<Element("TABLE", "datadisplaytable", "", rows)>>
    [] layout = "plain" -> <<Element("TABLE", "", "", rows)>>
    [] layout = "empty" -> <<Element("DIV", "", "You have no registered courses", <<>>)>>

Bodies == UNION {[1..n -> 1..Len(RowPool)] : n \in 0..MaxRows}

BodyRows(body) == [k \in 1..Len(body) |-> RowPool[body[k]]]

Pages ==
  {Page(kind[1], HeaderLayouts[kind[2]] \o BodyRows(body)) :
     kind \in PageKinds, body \in Bodies}

(***************************************************************************)
(* State                                                                   *)
(***************************************************************************)
VARIABLES
  doc,                \* the page: the body's child elements
  pc,                 \* where generateAndDownload stands
  table,              \* findDataTable's result: a position in doc, 0 for null
  headerRowCount,     \* scrapeCourseData's locals
  i,                  \* the number of rows the loops have passed
  courses,
  skippedRows,
  invalidRows,
  currentCourseInfo,
  parserCalls,        \* the rows (by number) handed to parseTableRow, in call order
  events,             \* what createEvent returned for each course so far
  ics,                \* generateICS's ics, as lines
  downloaded,         \* the content handed to downloadICS, Null before
  error,              \* the Error thrown and caught, "" when none
  arg,                \* the argument of a decoder or formatter applied on its own
  res                 \* and its result

vars == <<doc, pc, table, headerRowCount, i, courses, skippedRows, invalidRows,
          currentCourseInfo, parserCalls, events, ics, downloaded, error, arg, res>>

exportVars == <<doc, pc, table, headerRowCount, i, courses, skippedRows, invalidRows,
                currentCourseInfo, parserCalls, events, ics, downloaded, error>>

TableNotFound == "Could not find course schedule table on this page."
NoSessionsFound == "No course data found in the table."

rows == IF table = 0 THEN <<>> ELSE doc[table].rows

\* The locals of one call of generateAndDownload before it has run.
Fresh ==
  /\ table = 0
  /\ headerRowCount = 0
  /\ i = 0
  /\ courses = <<>>
  /\ skippedRows = 0
  /\ invalidRows = 0
  /\ currentCourseInfo = EmptyCourseInfo
  /\ parserCalls = <<>>
  /\ events = <<>>
  /\ ics = <<>>
  /\ downloaded = Null
  /\ error = ""

Init ==
  /\ doc \in Pages
  /\ pc = "idle"
  /\ Fresh
  /\ arg = ""
  /\ res = ""

(***************************************************************************)
(* generateAndDownload, one step at a time                                 *)
(***************************************************************************)
\* The button is clicked and findDataTable finds no table: scrapeCourseData throws.
ClickNoTable ==
  /\ pc \in {"idle", "done", "error"}
  /\ findDataTable(doc) = 0
  /\ pc' = "error"
  /\ error' = TableNotFound
  /\ table' = 0
  /\ headerRowCount' = 0
  /\ i' = 0
  /\ courses' = <<>>
  /\ skippedRows' = 0
  /\ invalidRows' = 0
  /\ currentCourseInfo' = EmptyCourseInfo
  /\ parserCalls' = <<>>
  /\ events' = <<>>
  /\ ics' = <<>>
  /\ downloaded' = Null
  /\ UNCHANGED <<doc, arg, res>>

\* The button is clicked and the table is found: the header rows are counted.
ClickTable ==
  /\ pc \in {"idle", "done", "error"}
  /\ findDataTable(doc) # 0
  /\ pc' = "scan"
  /\ error' = ""
  /\ table' = findDataTable(doc)
  /\ headerRowCount' = HeaderRowCount(doc[table'].rows)
  /\ i' = headerRowCount'
  /\ courses' = <<>>
  /\ skippedRows' = 0
  /\ invalidRows' = 0
  /\ currentCourseInfo' = EmptyCourseInfo
  /\ parserCalls' = <<>>
  /\ events' = <<>>
  /\ ics' = <<>>
  /\ downloaded' = Null
  /\ UNCHANGED <<doc, arg, res>>

\* One pass of the row loop over a row with too few cells.
SkipRow ==
  /\ pc = "scan"
  /\ i < Len(rows)
  /\ IsSpacerRow(rows[i + 1].td)
  /\ skippedRows' = skippedRows + 1
  /\ i' = i + 1
  /\ UNCHANGED <<doc, pc, table, headerRowCount, courses, invalidRows, currentCourseInfo,
                 parserCalls, events, ics, downloaded, error, arg, res>>

\* One pass of the row loop over a row that parseTableRow turns into a record.
RecordRow ==
  /\ pc = "scan"
  /\ i < Len(rows)
  /\ ~IsSpacerRow(rows[i + 1].td)
  /\ LET info == InfoForRow(rows[i + 1].td, currentCourseInfo)
         courseData == parseTableRow(rows[i + 1], rows, info)
     IN  /\ ~courseData.isNull
         /\ courses' = Append(courses, courseData.val)
         /\ currentCourseInfo' = InfoAfterRecord(courseData.val, info)
  /\ parserCalls' = Append(parserCalls, i + 1)
  /\ i' = i + 1
  /\ UNCHANGED <<doc, pc, table, headerRowCount, skippedRows, invalidRows,
                 events, ics, downloaded, error, arg, res>>

\* One pass of the row loop over a row for which parseTableRow returns null.
InvalidRow ==
  /\ pc = "scan"
  /\ i < Len(rows)
  /\ ~IsSpacerRow(rows[i + 1].td)
  /\ LET info == InfoForRow(rows[i + 1].td, currentCourseInfo)
         courseData == parseTableRow(rows[i + 1], rows, info)
     IN  /\ courseData.isNull
         /\ currentCourseInfo' = info
  /\ invalidRows' = invalidRows + 1
  /\ parserCalls' = Append(parserCalls, i + 1)
  /\ i' = i + 1
  /\ UNCHANGED <<doc, pc, table, headerRowCount, courses, skippedRows,
                 events, ics, downloaded, error, arg, res>>

\* The row loop is over and no course was collected: scrapeCourseData throws.
ThrowNoSessions ==
  /\ pc = "scan"
  /\ i >= Len(rows)
  /\ NoCourses(courses)
  /\ pc' = "error"
  /\ error' = NoSessionsFound
  /\ UNCHANGED <<doc, table, headerRowCount, i, courses, skippedRows, invalidRows,
                 currentCourseInfo, parserCalls, events, ics, downloaded, arg, res>>

\* scrapeCourseData returns the courses and generateICS writes its first lines.
ReturnCourses ==
  /\ pc = "scan"
  /\ i >= Len(rows)
  /\ ~NoCourses(courses)
  /\ pc' = "generate"
  /\ ics' = ICSHeader
  /\ UNCHANGED <<doc, table, headerRowCount, i, courses, skippedRows, invalidRows,
                 currentCourseInfo, parserCalls, events, downloaded, error, arg, res>>

\* if (event) ics += event
AddEvent(text, event) == IF event # <<>> THEN text \o event ELSE text

\* NextCourse walking the list from its end.
NextCourse_Reversed(list, n) == list[Len(list) - n]

\* The course generateICS's loop takes after n courses.
NextCourse(list, n) == list[n + 1]

\* One pass of generateICS's loop.
GenerateEvent ==
  /\ pc = "generate"
  /\ Len(events) < Len(courses)
  /\ LET event == createEvent(NextCourse(courses, Len(events)))
     IN  /\ events' = Append(events, event)
         /\ ics' = AddEvent(ics, event)
  /\ UNCHANGED <<doc, pc, table, headerRowCount, i, courses, skippedRows, invalidRows,
                 currentCourseInfo, parserCalls, downloaded, error, arg, res>>

\* generateICS closes the calendar and returns.
FinishICS ==
  /\ pc = "generate"
  /\ Len(events) = Len(courses)
  /\ ics' = Append(ics, ICSFooter)
  /\ pc' = "download"
  /\ UNCHANGED <<doc, table, headerRowCount, i, courses, skippedRows, invalidRows,
                 currentCourseInfo, parserCalls, events, downloaded, error, arg, res>>

\* downloadICS(icsContent, filename) and the success message.
Download ==
  /\ pc = "download"
  /\ downloaded' = Some(ics)
  /\ pc' = "done"
  /\ UNCHANGED <<doc, table, headerRowCount, i, courses, skippedRows, invalidRows,
                 currentCourseInfo, parserCalls, events, ics, error, arg, res>>

Next ==
  \/ ClickNoTable
  \/ ClickTable
  \/ SkipRow
  \/ RecordRow
  \/ InvalidRow
  \/ ThrowNoSessions
  \/ ReturnCourses
  \/ GenerateEvent
  \/ FinishICS
  \/ Download

Spec == Init /\ [][Next]_vars

(***************************************************************************)
(* The recurrence end, the text escaping and the days decoder on their own *)
(***************************************************************************)
MonthNames ==
  <<"JAN", "FEB", "MAR", "APR", "MAY", "JUN", "JUL", "AUG", "SEP", "OCT", "NOV", "DEC">>

\* End dates as the page writes them: the first and the last days of every
\* month, in leap and common years of four centuries and in two years below 1000.
EndDateInputs ==
  {day \o "-" \o MonthNames[m] \o "-" \o year :
     day \in {"1", "09", "28", "29", "30", "31"},
     m \in 1..12,
     year \in {"0050", "0500", "1900", "1999", "2000", "2023", "2024", "2100"}}

\* A record's end date is decoded and, when it decodes, formatted as the UNTIL
\* of the recurrence rule.
UntilOfEndDate ==
  /\ pc = "ready"
  /\ LET endDate == parseBannerDate(arg)
     IN  res' = IF endDate.isNull THEN "" ELSE formatICSDateTimeUTC(endDate.val, "23:59")
  /\ pc' = "applied"
  /\ UNCHANGED <<doc, table, headerRowCount, i, courses, skippedRows, invalidRows,
                 currentCourseInfo, parserCalls, events, ics, downloaded, error, arg>>

InitUntil ==
  /\ doc = <<>>
  /\ pc = "ready"
  /\ Fresh
  /\ arg \in EndDateInputs
  /\ res = ""

NextUntil == UntilOfEndDate

SpecUntil == InitUntil /\ [][NextUntil]_vars

\* The characters that stand for themselves and the four that are escaped.
EscapeAlphabet == {"a", " ", "\\", ";", ",", "\n"}

MaxTextLen == 3

RECURSIVE TextsUpTo(_)
TextsUpTo(n) ==
  IF n = 0 THEN {""}
  ELSE TextsUpTo(n - 1) \cup {t \o c : t \in TextsUpTo(n - 1), c \in EscapeAlphabet}

TextInputs == TextsUpTo(MaxTextLen) \cup {"A; B, C\nD", "C:\\a;b"}

\* A page of Banner's two header rows and one lecture row whose title and room
\* cells hold the text.
TextRows(text) ==
  HeaderLayouts[1] \o
    <<DataRow("", "", "", "", text, "06-MAY-2024", "", "Lecture", "", "1230-1420", text)>>

\* The text is escaped on its own, and the row that holds it is parsed and made
\* an event.
EscapeText ==
  /\ pc = "ready"
  /\ res' = escapeICSText(arg)
  /\ LET courseData == parseTableRow(TextRows(arg)[3], TextRows(arg), EmptyCourseInfo)
     IN  /\ courses' = <<courseData.val>>
         /\ events' = <<createEvent(courseData.val)>>
  /\ pc' = "applied"
  /\ UNCHANGED <<doc, table, headerRowCount, i, skippedRows, invalidRows,
                 currentCourseInfo, parserCalls, ics, downloaded, error, arg>>

InitEscape ==
  /\ doc = <<>>
  /\ pc = "ready"
  /\ Fresh
  /\ arg \in TextInputs
  /\ res = ""

NextEscape == EscapeText

SpecEscape == InitEscape /\ [][NextEscape]_vars

\* Days cells: every mask that marks a set of weekdays by their letters, and
\* texts that are no mask.
MaskOf(days) ==
  JoinRange([n \in 1..7 |-> IF n \in days THEN positions[n] ELSE "-"], "", 1, 7)

DaysInputs ==
  {MaskOf(days) : days \in SUBSET (1..7)}
    \cup {"", "TBA", "TR", "T------", "-M-----", " -t-r--- ", "MTWRFSU-", "-T-R--", "N/A"}

\* The days cell is decoded.
DecodeDays ==
  /\ pc = "ready"
  /\ res' = parseBannerDays(arg)
  /\ pc' = "applied"
  /\ UNCHANGED <<doc, table, headerRowCount, i, courses, skippedRows, invalidRows,
                 currentCourseInfo, parserCalls, events, ics, downloaded, error, arg>>

InitDays ==
  /\ doc = <<>>
  /\ pc = "ready"
  /\ Fresh
  /\ arg \in DaysInputs
  /\ res = <<>>

NextDays == DecodeDays

SpecDays == InitDays /\ [][NextDays]_vars

\* Date cells: days and months in and out of range in a leap and a common
\* year, in either case of the letters, and texts that are no date.
DateInputs ==
  {day \o "-" \o month \o "-" \o year :
     day \in {"0", "1", "6", "06", "28", "29", "30", "31", "32"},
     month \in {"JAN", "FEB", "feb", "APR", "MAY", "may", "Jun", "DEC", "XXX"},
     year \in {"2023", "2024"}}
    \cup {"", "TBA", "06-MAY", "06-MAY-2024-1", " 6-may-2024 ", "06/05/2024", "-MAY-2024"}

\* The date cell is decoded.
DecodeDate ==
  /\ pc = "ready"
  /\ res' = parseBannerDate(arg)
  /\ pc' = "applied"
  /\ UNCHANGED <<doc, table, headerRowCount, i, courses, skippedRows, invalidRows,
                 currentCourseInfo, parserCalls, events, ics, downloaded, error, arg>>

InitDate ==
  /\ doc = <<>>
  /\ pc = "ready"
  /\ Fresh
  /\ arg \in DateInputs
  /\ res = Null

NextDate == DecodeDate

SpecDate == InitDate /\ [][NextDate]_vars

\* Sides of a time range of three and of four digits.
ClockInputs == {"000", "005", "830", "900", "959", "0000", "0830", "1025", "1230", "1420", "2359"}

\* Time cells: the ranges of two sides, and texts that do not split on "-" into
\* two parts.
TimeInputs ==
  {from \o "-" \o to : from \in ClockInputs, to \in ClockInputs}
    \cup {"", " ", "TBA", "1230", "1230-1420-1530", "-", "--", " 830-1025 "}

\* The time cell is decoded.
DecodeTime ==
  /\ pc = "ready"
  /\ res' = parseBannerTime(arg)
  /\ pc' = "applied"
  /\ UNCHANGED <<doc, table, headerRowCount, i, courses, skippedRows, invalidRows,
                 currentCourseInfo, parserCalls, events, ics, downloaded, error, arg>>

InitTime ==
  /\ doc = <<>>
  /\ pc = "ready"
  /\ Fresh
  /\ arg \in TimeInputs
  /\ res = Null

NextTime == DecodeTime

SpecTime == InitTime /\ [][NextTime]_vars

\* A table of a row of header cells, or of none, followed by data rows.
LocatorTable(class, summary, headers, cell, count) ==
  [tag |-> "TABLE", class |-> class, summary |-> summary, text |-> "",
   rows |-> <<[th |-> headers, td |-> <<>>]>>
              \o [k \in 1..(count - 1) |-> [th |-> <<>>, td |-> <<cell, "x", "y">>]]]

\* The elements the documents of the table locator are made of.
ElementPool ==
  << Element("H2", "", "Registered Courses", <<>>),
     Element("H3", "", "Week at a Glance", <<>>),
     Element("DIV", "", "", <<>>),
     \* a short table with a Type header only
     LocatorTable("", "", <<"Type">>, "", 2),
     \* a long table with Start and Type headers
     LocatorTable("", "", <<"Start", " type ">>, "", 4),
     \* a styled table without a Type header
     LocatorTable("datadisplaytable", "", <<"Start", "End">>, "", 2),
     \* a table found by its summary, with Subj and Crse in one header
     LocatorTable("", "This table lists the course schedule", <<"Subj/Crse">>, "", 2),
     \* a long table without header cells whose data cells name the registered courses
     LocatorTable("", "", <<>>, "Your registered courses", 4),
     \* a long table with Subj and Crse in two headers
     LocatorTable("", "", <<"Subj", "Crse">>, "", 4) >>

MaxElements == 3

Filler(n) == [k \in 1..n |-> ElementPool[3]]

\* Documents of up to MaxElements elements, and two where a table with a Type
\* header is the tenth and the eleventh sibling after the heading.
LocatorDocs ==
  UNION {{[k \in 1..n |-> ElementPool[f[k]]] : f \in [1..n -> 1..Len(ElementPool)]} :
           n \in 0..MaxElements}
    \cup {<<ElementPool[9], ElementPool[1]>> \o Filler(n) \o <<ElementPool[4]>> : n \in {9, 10}}

\* findDataTable is called on the document.
Locate ==
  /\ pc = "ready"
  /\ table' = findDataTable(doc)
  /\ pc' = "applied"
  /\ UNCHANGED <<doc, headerRowCount, i, courses, skippedRows, invalidRows,
                 currentCourseInfo, parserCalls, events, ics, downloaded, error, arg, res>>

InitLocator ==
  /\ doc \in LocatorDocs
  /\ pc = "ready"
  /\ Fresh
  /\ arg = ""
  /\ res = ""

NextLocator == Locate

SpecLocator == InitLocator /\ [][NextLocator]_vars

\* The columns of Banner's table, in the order of the cells of a data row.
ColumnNames ==
  <<"CRN", "Subj", "Crse", "Sec", "Status", "Cred", "Title",
    "Start", "End", "Type", "Days", "Time", "Room", "Instructor">>

\* The rows the tables of the column resolver are made of.
ColumnRowPool ==
  << \* Banner's two header rows, the second with an empty cell under each
     \* column the first one labels
     HeaderLayouts[1][1],
     HeaderLayouts[1][2],
     \* a second header row of the labelled cells only, under cells of the
     \* first row that span two rows
     [th |-> <<"Start", "End", "Type", "Days", "Time", "Room", "Instructor">>, td |-> <<>>],
     \* one header row of all the columns, in other letters and with spaces
     [th |-> <<"crn", " subj ", "CRSE", "Section", "Status", "Cred", "Course Title",
               "Start Date", "End Date", "Type", "Days", "Time", "Room", "Instructor">>,
      td |-> <<>>],
     \* a header row with two cells that hold the same name
     [th |-> <<"", "Time", "Type", "Meeting Times", "Type">>, td |-> <<>>],
     \* a data row
     RowPool[1],
     \* a row of a header cell and data cells
     [th |-> <<"Room">>, td |-> <<"A275", "B019", "Gym">>] >>

MaxTableRows == 3

ColumnTables ==
  UNION {{[k \in 1..n |-> ColumnRowPool[f[k]]] : f \in [1..n -> 1..Len(ColumnRowPool)]} :
           n \in 0..MaxTableRows}

\* The names parseTableRow asks for, one in lower case and one no table has.
FieldNames == {"Subj", "Crse", "Sec", "Title", "Type", "Days", "Time", "Start", "End", "Room",
               "type", "Grade"}

\* getColumnIndex is called on the table with the name.
ResolveColumn ==
  /\ pc = "ready"
  /\ res' = getColumnIndex(rows, arg)
  /\ pc' = "applied"
  /\ UNCHANGED <<doc, table, headerRowCount, i, courses, skippedRows, invalidRows,
                 currentCourseInfo, parserCalls, events, ics, downloaded, error, arg>>

InitColumns ==
  /\ \E tableRows \in ColumnTables : doc = <<Element("TABLE", "", "", tableRows)>>
  /\ pc = "ready"
  /\ table = 1
  /\ headerRowCount = 0
  /\ i = 0
  /\ courses = <<>>
  /\ skippedRows = 0
  /\ invalidRows = 0
  /\ currentCourseInfo = EmptyCourseInfo
  /\ parserCalls = <<>>
  /\ events = <<>>
  /\ ics = <<>>
  /\ downloaded = Null
  /\ error = ""
  /\ arg \in FieldNames
  /\ res = -1

NextColumns == ResolveColumn

SpecColumns == InitColumns /\ [][NextColumns]_vars

\* Rows for the row parser on its own: every mix of a type that is and is not
\* one of the three words, of dates, days and times that do and do not match
\* their patterns, in a row of all the 14 cells and in one without its first.
ParserCells ==
  [type : {"Lecture", " lab ", "Tutorial", "", "EXAM"},
   start : {"06-MAY-2024", "TBA", ""},
   end : {"09-AUG-2024", "TBA", ""},
   days : {"-T-R---", "TBA", ""},
   time : {"830-1025", "TBA", ""},
   whole : BOOLEAN]

ParserRow(c) ==
  LET row == DataRow("10123", "CPSC", "1150", "001", "Program Design",
                     c.start, c.end, c.type, c.days, c.time, "A275")
  IN  IF c.whole THEN row ELSE [th |-> <<>>, td |-> Tail(row.td)]

\* parseTableRow is called on the only data row of the table.
ParseRow ==
  /\ pc = "ready"
  /\ res' = parseTableRow(rows[i + 1], rows, currentCourseInfo)
  /\ pc' = "applied"
  /\ UNCHANGED <<doc, table, headerRowCount, i, courses, skippedRows, invalidRows,
                 currentCourseInfo, parserCalls, events, ics, downloaded, error, arg>>

InitRow ==
  /\ \E layout \in 1..Len(HeaderLayouts), c \in ParserCells :
       /\ doc = <<Element("TABLE", "datadisplaytable", "",
                          HeaderLayouts[layout] \o <<ParserRow(c)>>)>>
       /\ headerRowCount = Len(HeaderLayouts[layout])
       /\ i = Len(HeaderLayouts[layout])
  /\ pc = "ready"
  /\ table = 1
  /\ courses = <<>>
  /\ skippedRows = 0
  /\ invalidRows = 0
  /\ currentCourseInfo = EmptyCourseInfo
  /\ parserCalls = <<>>
  /\ events = <<>>
  /\ ics = <<>>
  /\ downloaded = Null
  /\ error = ""
  /\ arg = ""
  /\ res = Null

NextRow == ParseRow

SpecRow == InitRow /\ [][NextRow]_vars

(***************************************************************************)
(* Properties of the export                                                *)
(***************************************************************************)
StartsWith(s, prefix) == Len(s) >= Len(prefix) /\ SubSeq(s, 1, Len(prefix)) = prefix

LinesWith(lines, prefix) == {j \in 1..Len(lines) : StartsWith(lines[j], prefix)}

Last(seq) == seq[Len(seq)]

MaxOf(S) == CHOOSE x \in S : \A y \in S : x >= y

\* The next row of the row loop, while the loop has one.
AtRow == pc = "scan" /\ i < Len(rows)

\* The step pushes a record.
PushesRecord == AtRow /\ Len(courses') = Len(courses) + 1

\* C1: in the row loop, a row with fewer than 3 data cells adds one to the
\* skipped-row counter and is not handed to parseTableRow; the invalid-row
\* counter and the collected records stay as they are.
C1_SpacerRowIsOnlySkipped ==
  [][ (AtRow /\ Len(rows[i + 1].td) < 3) =>
        /\ skippedRows' = skippedRows + 1
        /\ parserCalls' = parserCalls
        /\ invalidRows' = invalidRows
        /\ courses' = courses ]_vars

\* A pass that skipped a two-cell row, collected a record and finished its loop.
C1_Witness ==
  /\ pc = "scan" /\ i = Len(rows) /\ i = headerRowCount + 2
  /\ skippedRows = 1 /\ Len(courses) = 1 /\ invalidRows = 0
  /\ \E k, j \in (headerRowCount + 1)..i :
       k # j /\ Len(rows[k].td) = 2 /\ parserCalls = <<j>>

\* The rows before the loop's next row that supplied both a subject and a course.
Suppliers ==
  {k \in (headerRowCount + 1)..i :
     /\ Len(rows[k].td) >= 3
     /\ LoopCellText(rows[k].td, 1) # "" /\ LoopCellText(rows[k].td, 2) # ""}

\* C2 as stated: a record produced from a row whose own subject and course cells
\* are empty carries the subject, course, section and title of the most recent
\* preceding data row that supplied its own subject and course.
C2_CarriesLastSupplier ==
  [][ PushesRecord =>
        LET cells == rows[i + 1].td
            rec == Last(courses')
        IN  ( /\ LoopCellText(cells, 1) = "" /\ LoopCellText(cells, 2) = ""
              /\ RowSubj(cells, rows) = "" /\ RowCrse(cells, rows) = ""
              /\ Suppliers # {} ) =>
              LET src == RowCourseInfo(rows[MaxOf(Suppliers)].td)
              IN  /\ rec.subject = src.subject
                  /\ rec.course = src.course
                  /\ rec.section = src.section
                  /\ rec.title = src.title ]_vars

\* The context the row loop hands to parseTableRow for the next row.
HandedContext ==
  LET cells == rows[i + 1].td
  IN  IF Len(cells) > 2 /\ trim(cells[2]) # "" /\ trim(cells[3]) # ""
      THEN [subject |-> trim(cells[2]),
            course |-> trim(cells[3]),
            section |-> IF Len(cells) > 3 THEN trim(cells[4]) ELSE "",
            title |-> IF Len(cells) > 6 THEN trim(cells[7]) ELSE ""]
      ELSE currentCourseInfo

\* C2 as amended: the context is empty when a pass starts; a row that supplies
\* both subject and course replaces it before the row is parsed; each identity
\* field of a record is the row's own cell when that is not empty and the
\* context's value otherwise (an empty title becomes a generated course code);
\* a record with a subject and a course becomes the context.
C2_CarriesContextPerField ==
  [][ /\ (pc # "scan" /\ pc' = "scan") => currentCourseInfo' = EmptyCourseInfo
      /\ PushesRecord =>
           LET cells == rows[i + 1].td
               rec == Last(courses')
               ctx == HandedContext
               ownTitle == RowTitle(cells, rows)
           IN  /\ rec.subject = OrElse(RowSubj(cells, rows), ctx.subject)
               /\ rec.course = OrElse(RowCrse(cells, rows), ctx.course)
               /\ rec.section = OrElse(RowSec(cells, rows), ctx.section)
               /\ rec.title # ""
               /\ OrElse(ownTitle, ctx.title) # "" => rec.title = OrElse(ownTitle, ctx.title)
               /\ currentCourseInfo' =
                    IF rec.subject # "" /\ rec.course # ""
                    THEN [subject |-> rec.subject, course |-> rec.course,
                          section |-> rec.section, title |-> rec.title]
                    ELSE ctx
      /\ (AtRow /\ invalidRows' = invalidRows + 1) => currentCourseInfo' = HandedContext
      /\ (AtRow /\ skippedRows' = skippedRows + 1) => currentCourseInfo' = currentCourseInfo
    ]_vars

\* A continuation row with no identity cell of its own, parsed after an invalid
\* row that supplied a subject and a course: the record carries that row's identity.
C2_Witness ==
  /\ pc = "scan" /\ i = Len(rows) /\ i = headerRowCount + 2
  /\ invalidRows = 1 /\ Len(courses) = 1
  /\ Suppliers = {headerRowCount + 1}
  /\ RowSubj(rows[i].td, rows) = "" /\ RowCrse(rows[i].td, rows) = ""
  /\ courses[1].subject = "MATH" /\ courses[1].course = "1171" /\ courses[1].section = "002"

\* C3: every collected record has a type and a start date or a time; a row with
\* 3 or more cells that has no type, or neither start date nor time, adds no
\* record, adds one to the invalid-row counter and leaves the pass running.
C3_RecordsHaveRequiredFields ==
  [][ /\ \A k \in 1..Len(courses') :
           courses'[k].type # "" /\ (courses'[k].start # "" \/ courses'[k].time # "")
      /\ ( /\ AtRow /\ Len(rows[i + 1].td) >= 3
           /\ LET cells == rows[i + 1].td
              IN  \/ RowType(cells, rows) = ""
                  \/ (RowStart(cells, rows) = "" /\ RowTime(cells, rows) = "") ) =>
           /\ courses' = courses
           /\ invalidRows' = invalidRows + 1
           /\ pc' = "scan" /\ error' = "" /\ i' = i + 1 ]_vars

\* A finished export that counted a row without the required fields as invalid
\* and went on to collect a record from the row after it.
C3_Witness ==
  /\ pc = "done"
  /\ invalidRows = 1 /\ Len(courses) = 1
  /\ parserCalls = <<headerRowCount + 1, headerRowCount + 2>>
  /\ RowType(rows[headerRowCount + 1].td, rows) = ""
  /\ courses[1].type = "LAB"

\* C4: an export ends in an error exactly when no table is found or no record is
\* collected, and then no calendar is generated and nothing is downloaded; a
\* calendar is generated and downloaded only from one record or more, after the
\* row loop has passed every row.
C4_OnlyTwoFatalErrors ==
  /\ error \in {"", TableNotFound, NoSessionsFound}
  /\ (pc = "error") <=> (error # "")
  /\ error # "" => ics = <<>> /\ events = <<>> /\ downloaded.isNull
  /\ error = TableNotFound <=> (pc # "idle" /\ table = 0)
  /\ error = NoSessionsFound => table # 0 /\ courses = <<>> /\ i = Len(rows)
  /\ (pc = "scan" /\ i = Len(rows) /\ courses = <<>>) => ~ENABLED ReturnCourses
  /\ pc \in {"generate", "download", "done"} =>
       table # 0 /\ Len(courses) >= 1 /\ i = Len(rows)
  /\ ics # <<>> => pc \in {"generate", "download", "done"}
  /\ ~downloaded.isNull => pc = "done" /\ downloaded.val = ics /\ Last(ics) = "END:VCALENDAR"

\* A table was found and every row of it was skipped or invalid.
C4_Witness ==
  /\ pc = "error" /\ error = NoSessionsFound
  /\ table # 0 /\ skippedRows >= 1 /\ invalidRows >= 1
  /\ downloaded.isNull /\ ics = <<>>

\* Both the start date and the time of a record decode.
Decodable(session) ==
  ~parseBannerDate(session.start).isNull /\ ~parseBannerTime(session.time).isNull

\* The event blocks of the first n records, in the order of the records.
RECURSIVE BlocksOf(_, _)
BlocksOf(list, n) ==
  IF n = 0 THEN <<>>
  ELSE BlocksOf(list, n - 1) \o (IF Decodable(list[n]) THEN createEvent(list[n]) ELSE <<>>)

WeekOrder == <<"MO", "TU", "WE", "TH", "FR", "SA", "SU">>

\* The weekday codes of a set, Monday first, as the value of BYDAY.
RECURSIVE ByDayFrom(_, _)
ByDayFrom(codes, n) ==
  IF n > Len(WeekOrder) THEN ""
  ELSE LET rest == ByDayFrom(codes, n + 1)
       IN  IF WeekOrder[n] \notin codes THEN rest
           ELSE IF rest = "" THEN WeekOrder[n]
           ELSE WeekOrder[n] \o "," \o rest

\* C6: an event has an RRULE line exactly when its record is not an exam, its
\* days decode to one weekday or more and its end date decodes; the line is
\* weekly and its BYDAY is the decoded weekdays, Monday first.
C6_RecurrenceRule ==
  \A k \in 1..Len(events) :
    events[k] # <<>> =>
      LET session == courses[k]
          decoded == parseBannerDays(session.days)
          codes == {decoded[j] : j \in 1..Len(decoded)}
          rules == LinesWith(events[k], "RRULE")
          recurs == /\ session.type # "EXAM"
                    /\ codes # {}
                    /\ ~parseBannerDate(session.end).isNull
      IN  /\ Cardinality(rules) = (IF recurs THEN 1 ELSE 0)
          /\ \A j \in rules :
               /\ StartsWith(events[k][j],
                    "RRULE:FREQ=WEEKLY;BYDAY=" \o ByDayFrom(codes, 1) \o ";UNTIL=")
               /\ Len(decoded) = Cardinality(codes)

\* A finished export of a lecture on Tuesdays and Thursdays, which recurs, and
\* an exam with a days mask and an end date, which does not.
C6_Witness ==
  /\ pc = "done" /\ Len(events) = 2
  /\ courses[1].type = "LECTURE" /\ courses[2].type = "EXAM"
  /\ courses[2].days # "" /\ courses[2].end # ""
  /\ \E j \in 1..Len(events[1]) :
       events[1][j] = "RRULE:FREQ=WEEKLY;BYDAY=TU,TH;UNTIL=20240810T075900Z"
  /\ events[2] # <<>> /\ LinesWith(events[2], "RRULE") = {}

\* The digits of one side of a time range as a six-digit wall-clock time.
WallClock(side) == (IF Len(side) = 3 THEN "0" ELSE "") \o side \o "00"

\* C8: an event has one DTSTART and one DTEND, both wall-clock times in the zone
\* America/Los_Angeles: DTSTART is the decoded start date at the start of the
\* time range, DTEND is at the end of the time range, on the decoded end date
\* for an exam whose end date decodes and differs from the start date, and on
\* the start date otherwise.
C8_StartAndEnd ==
  \A k \in 1..Len(events) :
    events[k] # <<>> =>
      LET session == courses[k]
          dash == IndexOfChar(session.time, "-")
          from == SubSeq(session.time, 1, dash - 1)
          to == SubSeq(session.time, dash + 1, Len(session.time))
          startDate == parseBannerDate(session.start)
          endDate == parseBannerDate(session.end)
          endDay == IF /\ session.type = "EXAM"
                       /\ ~endDate.isNull
                       /\ endDate.val # startDate.val
                    THEN endDate.val ELSE startDate.val
      IN  /\ \E j \in 1..Len(events[k]) :
               /\ LinesWith(events[k], "DTSTART") = {j}
               /\ events[k][j] = "DTSTART;TZID=America/Los_Angeles:"
                                   \o startDate.val \o "T" \o WallClock(from)
          /\ \E j \in 1..Len(events[k]) :
               /\ LinesWith(events[k], "DTEND") = {j}
               /\ events[k][j] = "DTEND;TZID=America/Los_Angeles:"
                                   \o endDay \o "T" \o WallClock(to)

\* A finished export of an exam from 12 to 13 August and of a lab on 6 May with
\* an end date of 9 August.
C8_Witness ==
  /\ pc = "done" /\ Len(events) = 2
  /\ courses[1].type = "EXAM" /\ courses[2].type = "LAB"
  /\ events[1][2] = "DTSTART;TZID=America/Los_Angeles:20240812T090000"
  /\ events[1][3] = "DTEND;TZID=America/Los_Angeles:20240813T120000"
  /\ courses[2].end = "09-AUG-2024"
  /\ events[2][2] = "DTSTART;TZID=America/Los_Angeles:20240506T083000"
  /\ events[2][3] = "DTEND;TZID=America/Los_Angeles:20240506T102500"

(***************************************************************************)
(* Properties of the functions on their own                                *)
(***************************************************************************)
TwoDigits(n) == (IF n < 10 THEN "0" ELSE "") \o numberToString(n)

FourDigits(n) ==
  (IF n < 10 THEN "000" ELSE IF n < 100 THEN "00" ELSE IF n < 1000 THEN "0" ELSE "")
    \o numberToString(n)

\* The calendar day after year-month-day, as YYYYMMDD.
DayAfter(year, month, day) ==
  IF day < DaysInMonth(year, month) THEN FourDigits(year) \o TwoDigits(month) \o TwoDigits(day + 1)
  ELSE IF month < 12 THEN FourDigits(year) \o TwoDigits(month + 1) \o "01"
  ELSE FourDigits(year + 1) \o "0101"

\* The decoded end date of the input is a day of the calendar, and UNTIL is the
\* day after it at 07:59:00Z.
UntilIsDayAfter ==
  LET endDate == parseBannerDate(arg)
      year == parseInt(SubSeq(endDate.val, 1, 4))
      month == parseInt(SubSeq(endDate.val, 5, 6))
      day == parseInt(SubSeq(endDate.val, 7, 8))
  IN  (~endDate.isNull /\ day <= DaysInMonth(year, month)) =>
        res = DayAfter(year, month, day) \o "T075900Z"

\* C7: for every end date that decodes to a day of the calendar, the UNTIL of
\* the recurrence rule is the day after it at 07:59:00Z, across month ends,
\* 29 February and year ends.
C7_UntilIsNextDayAt0759Z == pc = "applied" => UntilIsDayAfter

\* The same for the end dates of the years from 1000 on.
UntilIsNextDayFromYear1000 ==
  (pc = "applied" /\ parseInt(SubSeq(arg, Len(arg) - 3, Len(arg))) >= 1000) => UntilIsDayAfter

\* The text with every backslash, semicolon and comma behind one backslash and
\* every newline as backslash-n, character by character.
RECURSIVE EscapedFrom(_, _)
EscapedFrom(text, n) ==
  IF n > Len(text) THEN ""
  ELSE LET c == Char(text, n)
       IN  (IF c \in {"\\", ";", ","} THEN "\\" \o c
            ELSE IF c = "\n" THEN "\\n"
            ELSE c) \o EscapedFrom(text, n + 1)

\* The line of an event block that starts with the name, "" when there is not
\* exactly one.
LineOf(block, name) ==
  LET at == LinesWith(block, name)
  IN  IF Cardinality(at) = 1 THEN block[CHOOSE j \in at : TRUE] ELSE ""

\* C9: escapeICSText puts one backslash before each backslash, semicolon and
\* comma, writes each newline as backslash-n and keeps every other character
\* in place, each character of the input escaped once; the SUMMARY, DESCRIPTION
\* and LOCATION values of an event are escaped so.
C9_EscapesEachCharacterOnce ==
  pc = "applied" =>
    /\ res = EscapedFrom(arg, 1)
    /\ LET session == courses[1]
           courseCode == EventCourseCode(session.subject, session.course,
                                         session.section, session.title)
           location == IF session.room # ""
                       THEN "Langara College, Room " \o session.room
                       ELSE "Langara College"
       IN  /\ LineOf(events[1], "SUMMARY:") =
                "SUMMARY:" \o EscapedFrom(courseCode \o " " \o session.type, 1)
           /\ LineOf(events[1], "DESCRIPTION:") =
                "DESCRIPTION:" \o EscapedFrom(session.title, 1)
           /\ LineOf(events[1], "LOCATION:") = "LOCATION:" \o EscapedFrom(location, 1)

\* The title "A; B, C<newline>D" escaped on its own and in the lines of its event.
C9_Witness ==
  /\ pc = "applied"
  /\ arg = "A; B, C\nD"
  /\ res = "A\\; B\\, C\\nD"
  /\ LineOf(events[1], "DESCRIPTION:") = "DESCRIPTION:A\\; B\\, C\\nD"
  /\ LineOf(events[1], "SUMMARY:") = "SUMMARY:A\\; B\\, C\\nD LECTURE"
  /\ LineOf(events[1], "LOCATION:") = "LOCATION:Langara College\\, Room A\\; B\\, C\\nD"

\* Seven characters, each the placeholder or the letter of a weekday.
IsDaysMask(text) ==
  Len(text) = 7 /\ \A n \in 1..7 : Char(text, n) \in {"-", "M", "T", "W", "R", "F", "S", "U"}

\* The codes of the positions of a mask that do not hold the placeholder.
RECURSIVE SetPositionsFrom(_, _)
SetPositionsFrom(mask, n) ==
  IF n > 7 THEN <<>>
  ELSE (IF Char(mask, n) # "-" THEN <<WeekOrder[n]>> ELSE <<>>) \o SetPositionsFrom(mask, n + 1)

\* C10: parseBannerDays of a 7-character mask is the codes of the positions of
\* the mask that are set, Monday first; of an empty input or of an input that
\* is no such mask it is the empty sequence.
C10_DecodesByPosition ==
  pc = "applied" =>
    LET mask == toUpperCase(trim(arg))
    IN  res = IF IsDaysMask(mask) THEN SetPositionsFrom(mask, 1) ELSE <<>>

\* For the masks that hold each weekday's letter at the weekday's own position,
\* parseBannerDays is the codes of the set positions.
DecodesOwnLetterMasks ==
  (pc = "applied" /\ \E days \in SUBSET (1..7) : arg = MaskOf(days)) =>
    res = SetPositionsFrom(arg, 1)

\* The number of the month of a three-letter abbreviation in upper case, 0 when
\* it is none of the twelve.
MonthNumber(abbr) ==
  LET at == {m \in 1..12 : MonthNames[m] = abbr}
  IN  IF at = {} THEN 0 ELSE CHOOSE m \in at : TRUE

\* What a date cell names: the YYYYMMDD of a text D[D]-MMM-YYYY with a known
\* month and a day the month has in that year, Null for any other text.
NamedDate(text) ==
  LET trimmed == trim(text)
      parts == split(trimmed, "-")
  IN  IF ~IsDatePattern(trimmed) THEN Null
      ELSE LET day == parseInt(parts[1])
               month == MonthNumber(toUpperCase(parts[2]))
               year == parseInt(parts[3])
           IN  IF month = 0 \/ day < 1 \/ day > DaysInMonth(year, month) THEN Null
               ELSE Some(parts[3] \o TwoDigits(month) \o TwoDigits(day))

\* C11: parseBannerDate returns YYYYMMDD for every D[D]-MMM-YYYY with a known
\* month, in either case, that names a day of the calendar, and null for a
\* malformed text, an unknown month or a day the calendar does not have, such
\* as 30-FEB-2024; every result that is not null is 8 digits.
C11_DecodesCalendarDates ==
  pc = "applied" =>
    /\ res = NamedDate(arg)
    /\ ~res.isNull => Len(res.val) = 8 /\ AllDigits(res.val)

\* For the texts that name a day of the calendar, and for those that are not of
\* the form D[D]-MMM-YYYY or have an unknown month or a day outside 1..31,
\* parseBannerDate is as C11 says.
DecodesAllButDaysPastMonthEnd ==
  (pc = "applied" /\ (~NamedDate(arg).isNull \/ res.isNull)) => res = NamedDate(arg)

\* The side of a time range as HH:MM: its last two digits the minutes, the
\* digits before them the hours, with a zero before a single hour digit.
ClockOf(side) ==
  (IF Len(side) = 3 THEN "0" ELSE "") \o SubSeq(side, 1, Len(side) - 2)
    \o ":" \o SubSeq(side, Len(side) - 1, Len(side))

\* The positions of the hyphens of a text.
Hyphens(text) == {k \in 1..Len(text) : Char(text, k) = "-"}

\* C12: parseBannerTime of "A-B", A and B of 3 or 4 digits each, is the start
\* and the end as HH:MM, the last two digits of a side the minutes and the rest
\* the hours padded to two digits; of an empty text, or of one that does not
\* split on "-" into exactly two parts, it is null.
C12_DecodesTimeRange ==
  pc = "applied" =>
    /\ IsTimePattern(arg) =>
         LET dash == CHOOSE k \in Hyphens(arg) : TRUE
         IN  res = Some([start |-> ClockOf(SubSeq(arg, 1, dash - 1)),
                         end |-> ClockOf(SubSeq(arg, dash + 1, Len(arg)))])
    /\ (arg = "" \/ Cardinality(Hyphens(arg)) # 1) => res = Null

\* "830-1025" decoded to 08:30 and 10:25.
C12_Witness ==
  /\ pc = "applied"
  /\ arg = "830-1025"
  /\ res = Some([start |-> "08:30", end |-> "10:25"])

\* The header cells of the element at q of the document, trimmed, in upper case.
UpperHeaders(q) ==
  LET headers == TableHeaders(doc[q])
  IN  [k \in 1..Len(headers) |-> toUpperCase(headers[k])]

SomeHeaderHas(q, word) == \E k \in 1..Len(UpperHeaders(q)) : includes(UpperHeaders(q)[k], word)

TablesOf == {q \in 1..Len(doc) : doc[q].tag = "TABLE"}

NamesBoth(text) ==
  includes(toUpperCase(text), "REGISTERED") /\ includes(toUpperCase(text), "COURSE")

\* The element at p is heading-like and names the registered courses.
RegisteredHeadingAt(p) ==
  /\ doc[p].tag \in {"H2", "H3", "H4"} \/ doc[p].class \in {"pageheader", "header"}
  /\ NamesBoth(TextContent(doc[p]))

\* A cell of the table at p names the registered courses.
RegisteredCellIn(p) ==
  /\ p \in TablesOf
  /\ \E r \in 1..Len(doc[p].rows) :
       \/ \E k \in 1..Len(doc[p].rows[r].th) : NamesBoth(doc[p].rows[r].th[k])
       \/ \E k \in 1..Len(doc[p].rows[r].td) : NamesBoth(doc[p].rows[r].td[k])

\* The first strategy accepts the table at q: it has a header cell with TYPE and
\* is among the 10 siblings after a heading that names the registered courses,
\* or is the first table of the container of such a heading or cell.
NearRegistered(q) ==
  /\ q \in TablesOf /\ SomeHeaderHas(q, "TYPE")
  /\ \E p \in 1..Len(doc) :
       \/ RegisteredHeadingAt(p) /\ ((p < q /\ q <= p + 10) \/ \A t \in TablesOf : q <= t)
       \/ RegisteredCellIn(p) /\ \A t \in TablesOf : q <= t

\* The second strategy accepts the table at q: a selector of the list matches
\* it and one of its header cells has TYPE, START, DAYS or both SUBJ and CRSE.
StyledWithKeyColumn(q) ==
  /\ \/ doc[q].class = "datadisplaytable"
     \/ /\ q \in TablesOf
        /\ \E word \in {"course", "schedule", "Registered"} : includes(doc[q].summary, word)
  /\ \E k \in 1..Len(UpperHeaders(q)) :
       LET h == UpperHeaders(q)[k]
       IN  \/ includes(h, "TYPE") \/ includes(h, "START") \/ includes(h, "DAYS")
           \/ (includes(h, "SUBJ") /\ includes(h, "CRSE"))

\* The third strategy accepts the table at q: it has more than 3 rows and its
\* header cells have TYPE and either START or DAYS among them.
LongWithTypeAndStartOrDays(q) ==
  /\ q \in TablesOf /\ Len(doc[q].rows) > 3
  /\ SomeHeaderHas(q, "TYPE")
  /\ SomeHeaderHas(q, "START") \/ SomeHeaderHas(q, "DAYS")

SiblingSearchStopsAtTen ==
  (pc = "applied" /\ Len(doc) > MaxElements) =>
    table = IF Len(doc) = 12 THEN 12 ELSE 0

\* The 1-based positions of the header cells of row r of the table whose text
\* contains the name, whatever the case of the letters.
HeaderCellsNaming(r, name) ==
  {k \in 1..Len(rows[r].th) : includes(toUpperCase(trim(rows[r].th[k])), toUpperCase(name))}

\* The rows with a header cell, and the rows above the first row without one.
HeaderBearingRows == {r \in 1..Len(rows) : Len(rows[r].th) > 0}

LeadingHeaderRows == {r \in 1..Len(rows) : \A q \in 1..r : Len(rows[q].th) > 0}

\* The index getColumnIndex returns for the name is the one the resolution
\* order gives: the leftmost cell naming it in the first row with header cells;
\* failing that, the leftmost one in the first of the leading header rows that
\* has one; failing that, -1.
ResolvedInOrder(name) ==
  LET inFirstRow == IF HeaderBearingRows = {} THEN {}
                    ELSE HeaderCellsNaming(MinOf(HeaderBearingRows), name)
      naming == {r \in LeadingHeaderRows : HeaderCellsNaming(r, name) # {}}
  IN  /\ inFirstRow # {} => res = MinOf(inFirstRow) - 1
      /\ (inFirstRow = {} /\ naming # {}) => res = MinOf(HeaderCellsNaming(MinOf(naming), name)) - 1
      /\ (inFirstRow = {} /\ naming = {}) => res = -1

\* The 0-based position in a data row of the column with the label, -1 when no
\* column has it.
ColumnPosition(label) ==
  LET at == {c \in 1..Len(ColumnNames) : ColumnNames[c] = label}
  IN  IF at = {} THEN -1 ELSE MinOf(at) - 1

\* The header cells of row r hold column labels, or nothing, in column order.
LabelsColumns(r) ==
  /\ \A k \in 1..Len(rows[r].th) : rows[r].th[k] = "" \/ ColumnPosition(rows[r].th[k]) >= 0
  /\ \A k, m \in 1..Len(rows[r].th) :
       (k < m /\ rows[r].th[k] # "" /\ rows[r].th[m] # "") =>
         ColumnPosition(rows[r].th[k]) < ColumnPosition(rows[r].th[m])

\* The table has a header of two rows of column labels above its data rows, and
\* the name is that of a column labelled in the second row only.
LabelledInSecondRowOnly(name) ==
  /\ Len(rows) >= 2
  /\ LeadingHeaderRows = {1, 2}
  /\ Len(rows[1].td) = 0 /\ Len(rows[2].td) = 0
  /\ LabelsColumns(1) /\ LabelsColumns(2)
  /\ HeaderCellsNaming(1, name) = {}
  /\ HeaderCellsNaming(2, name) # {}

\* The column the second header row labels with the name.
SecondRowColumn(name) == ColumnPosition(rows[2].th[MinOf(HeaderCellsNaming(2, name))])

\* Every header cell of the second row stands at the position its column has in
\* the data rows.
SecondRowAligned ==
  \A k \in 1..Len(rows[2].th) :
    rows[2].th[k] # "" => ColumnPosition(rows[2].th[k]) = k - 1

\* C14 as stated: getColumnIndex follows the resolution order, and for a
\* two-row header where a column is labelled only in the second row the index
\* is the position of that column in the data rows.
C14_IndexIsDataPosition ==
  pc = "applied" =>
    /\ ResolvedInOrder(arg)
    /\ LabelledInSecondRowOnly(arg) => res = SecondRowColumn(arg)

\* C14 as amended: getColumnIndex follows the resolution order, its index being
\* the position of the header cell in its own row; for a two-row header where
\* a column is labelled only in the second row, the index is the position of
\* the column in the data rows when every header cell of the second row stands
\* at the position of its column.
C14_IndexIsPositionInHeaderRow ==
  pc = "applied" =>
    /\ ResolvedInOrder(arg)
    /\ (LabelledInSecondRowOnly(arg) /\ SecondRowAligned) => res = SecondRowColumn(arg)
    /\ LabelledInSecondRowOnly(arg) => res = MinOf(HeaderCellsNaming(2, arg)) - 1

\* Banner's two header rows above a data row, and Type, which only the second
\* labels, resolved to 9, where the data row holds "Lecture".
C14_Witness ==
  /\ pc = "applied"
  /\ arg = "Type"
  /\ Len(rows) = 3
  /\ LabelledInSecondRowOnly(arg) /\ SecondRowAligned
  /\ res = 9
  /\ rows[3].td[res + 1] = "Lecture"

\* C15: every record parseTableRow produces has a type that is LECTURE, LAB or
\* EXAM, whatever the row and the header rows of the table, also when no cell
\* of the row holds one of the three words.
C15_TypeIsOneOfThree ==
  (pc = "applied" /\ ~res.isNull) => res.val.type \in {"LECTURE", "LAB", "EXAM"}

\* When a cell of the row holds one of the three words, in any case of the
\* letters, the record's type is one of LECTURE, LAB and EXAM.
TypeIsOneOfThreeWhenACellIs ==
  (pc = "applied" /\ ~res.isNull
     /\ \E k \in 1..Len(rows[i + 1].td) :
          toUpperCase(trim(rows[i + 1].td[k])) \in {"LECTURE", "LAB", "EXAM"}) =>
    res.val.type \in {"LECTURE", "LAB", "EXAM"}


\* The 1-based position of the leftmost cell whose trimmed text satisfies P,
\* 0 when no cell does.
Leftmost(cells, P(_)) ==
  LET S == {k \in 1..Len(cells) : P(trim(cells[k]))}
  IN  IF S = {} THEN 0 ELSE MinOf(S)

\* The text of the cell the resolver reports for the name when the row has a
\* cell there, else of the cell at the fixed position, else the empty text.
ByColumn(cells, name, fallback) ==
  LET idx == getColumnIndex(rows, name)
  IN  IF idx >= 0 /\ idx < Len(cells) THEN trim(cells[idx + 1])
      ELSE IF fallback < Len(cells) THEN trim(cells[fallback + 1])
      ELSE ""

PatternFirst(cells, P(_), name, fallback) ==
  LET k == Leftmost(cells, P)
  IN  IF k > 0 THEN trim(cells[k]) ELSE ByColumn(cells, name, fallback)

\* C16: in a record of parseTableRow each of type, start, time and days is the
\* text of the leftmost cell of the row that matches the field's pattern (the
\* type in capitals), whatever column getColumnIndex reports; the reported
\* column, then the fixed position, is read only when no cell matches.  When
\* the start date is found by its pattern at a cell, the end date is the text
\* of the next cell if that is a date too and is empty otherwise.
C16_PatternBeforeColumn ==
  (pc = "applied" /\ ~res.isNull) =>
    LET cells == rows[i + 1].td
        d == Leftmost(cells, IsDatePattern)
    IN  /\ res.val.type = toUpperCase(PatternFirst(cells, IsTypeWord, "Type", 9))
        /\ res.val.start = PatternFirst(cells, IsDatePattern, "Start", 7)
        /\ res.val.time = PatternFirst(cells, IsTimePattern, "Time", 11)
        /\ res.val.days = PatternFirst(cells, IsDaysPattern, "Days", 10)
        /\ d > 0 =>
             res.val.end = IF d + 1 <= Len(cells) /\ IsDatePattern(trim(cells[d + 1]))
                           THEN trim(cells[d + 1])
                           ELSE ""

\* A row under a header that names Type, Start and End at other columns than
\* the row's own: the type and the start date are found by their patterns, the
\* cell after the start date is no date, and the record's end date is empty.
C16_Witness ==
  /\ pc = "applied"
  /\ ~res.isNull
  /\ LET cells == rows[i + 1].td
         t == Leftmost(cells, IsTypeWord)
         d == Leftmost(cells, IsDatePattern)
     IN  /\ t > 0
         /\ getColumnIndex(rows, "Type") >= 0
         /\ getColumnIndex(rows, "Type") # t - 1
         /\ res.val.type = "LAB"
         /\ d > 0
         /\ getColumnIndex(rows, "Start") # d - 1
         /\ trim(cells[d + 1]) = "TBA"
         /\ ByColumn(cells, "End", 8) # ""
         /\ res.val.end = ""
         /\ res.val.start = "06-MAY-2024"

\* The row loop of scrapeCourseData has passed every row of the table.
LoopFinished ==
  \/ pc = "scan" /\ i >= Len(rows)
  \/ pc = "error" /\ error = NoSessionsFound
  \/ pc \in {"generate", "download", "done"}

\* The rows of the table after its leading header rows.
BodyRowNumbers ==
  LET noTh == {r \in 1..Len(rows) : Len(rows[r].th) = 0}
  IN  IF noTh = {} THEN {} ELSE MinOf(noTh)..Len(rows)

SpacerRowNumbers == {r \in BodyRowNumbers : Len(rows[r].td) < 3}

\* The body rows that give a record.  Whether a row gives one does not depend
\* on the identity carried to it.
ParsedRowNumbers ==
  {r \in BodyRowNumbers \ SpacerRowNumbers :
     ~parseTableRow(rows[r], rows, EmptyCourseInfo).isNull}

InvalidRowNumbers == (BodyRowNumbers \ SpacerRowNumbers) \ ParsedRowNumbers

\* The k-th smallest number of a set of numbers.
Nth(S, k) == CHOOSE r \in S : Cardinality({q \in S : q < r}) = k - 1

\* The fields of a record that come from the cells of its own row alone.
OwnFields(session) ==
  <<session.type, session.days, session.time, session.start, session.end, session.room>>

\* C17: when the row loop is over, whether scrapeCourseData then returns or
\* throws, the header rows, the skipped rows, the invalid rows and the records
\* add up to the rows of the table: the header rows counted are the leading
\* rows with header cells, every row after them is counted once, as skipped,
\* as invalid or as a record, and the records are in the order of their rows.
C17_EveryRowCountedOnce ==
  LoopFinished =>
    /\ headerRowCount + skippedRows + invalidRows + Len(courses) = Len(rows)
    /\ headerRowCount = Len(rows) - Cardinality(BodyRowNumbers)
    /\ skippedRows = Cardinality(SpacerRowNumbers)
    /\ invalidRows = Cardinality(InvalidRowNumbers)
    /\ Len(courses) = Cardinality(ParsedRowNumbers)
    /\ \A k \in 1..Len(courses) :
         OwnFields(courses[k]) =
           OwnFields(parseTableRow(rows[Nth(ParsedRowNumbers, k)], rows, EmptyCourseInfo).val)

\* A table of one header row and two rows that each gave a record: the lab's
\* row comes before the lecture's, and so do their records.
C17_Witness ==
  /\ pc = "scan" /\ i = Len(rows)
  /\ headerRowCount = 1 /\ Len(rows) = 3
  /\ skippedRows = 0 /\ invalidRows = 0 /\ Len(courses) = 2
  /\ trim(rows[2].td[10]) = "LAB" /\ courses[1].type = "LAB"
  /\ trim(rows[3].td[10]) = "Lecture" /\ courses[2].type = "LECTURE"
  /\ courses[1].days # courses[2].days


\* The weekday code of a day of the calendar: 1 January 1970 was a Thursday.
WeekdayOf(year, month, day) == WeekOrder[((MakeDay(year, month - 1, day) + 3) % 7) + 1]

\* The weekday codes listed after BYDAY= in a recurrence rule line.
ByDayOf(rule) ==
  LET prefix == "RRULE:FREQ=WEEKLY;BYDAY="
      until == MinOf({p \in (Len(prefix) + 1)..Len(rule) : Char(rule, p) = ";"})
  IN  {SubSeq(rule, p, p + 1) :
         p \in {q \in (Len(prefix) + 1)..(until - 2) : (q - Len(prefix)) % 3 = 1}}

\* The calendar date of an event's DTSTART, as <<year, month, day>>.
StartDayOf(block) ==
  LET prefix == "DTSTART;TZID=America/Los_Angeles:"
      stamp == LineOf(block, "DTSTART")
  IN  <<parseInt(SubSeq(stamp, Len(prefix) + 1, Len(prefix) + 4)),
        parseInt(SubSeq(stamp, Len(prefix) + 5, Len(prefix) + 6)),
        parseInt(SubSeq(stamp, Len(prefix) + 7, Len(prefix) + 8))>>

StartsOnAMeetingDayWhenTheTermDoes ==
  \A k \in 1..Len(events) :
    LinesWith(events[k], "RRULE") # {} =>
      LET date == StartDayOf(events[k])
          startDate == parseBannerDate(courses[k].start).val
          decoded == parseBannerDays(courses[k].days)
          onADay == WeekdayOf(parseInt(SubSeq(startDate, 1, 4)),
                              parseInt(SubSeq(startDate, 5, 6)),
                              parseInt(SubSeq(startDate, 7, 8)))
                      \in {decoded[j] : j \in 1..Len(decoded)}
      IN  (WeekdayOf(date[1], date[2], date[3]) \in ByDayOf(LineOf(events[k], "RRULE")))
            <=> onADay

\* An export of a lab on Mondays and Fridays whose term starts on Monday
\* 6 May 2024: its DTSTART is on a listed day.
StartsOnAMeetingDayReached ==
  /\ pc = "done" /\ Len(events) = 1
  /\ courses[1].days = "M---F--"
  /\ LineOf(events[1], "RRULE") # ""
  /\ StartDayOf(events[1]) = <<2024, 5, 6>>
  /\ WeekdayOf(2024, 5, 6) = "MO"
  /\ ByDayOf(LineOf(events[1], "RRULE")) = {"MO", "FR"}
=============================================================================
